---- MODULE Spec2Model ----
(***************************************************************************)
(* Model of thor.orbits.propagate.propagateOrbits: the dispatcher that     *)
(* normalises epochs to TDB, selects one of two propagation backends,      *)
(* shifts the origin around the THOR backend and assembles the result.     *)
(*                                                                         *)
(* Abstractions.  A state vector (six floats) is one integer; the six      *)
(* state columns of a table are one block, stored under the key "state"    *)
(* of a row, while the table's column list names all of them.  An epoch    *)
(* is an integer MJD read in a time scale; changing the scale adds the     *)
(* difference of the scales' offsets, so a conversion is never the         *)
(* identity.  Collaborators that are not part of propagate.py              *)
(* (_checkTime, _backendHandler, shiftOrbitsOrigin, propagateUniversal,    *)
(* propagateOrbitsPYOORB) are modelled from their documented contracts,    *)
(* and each of them may raise.                                             *)
(***************************************************************************)
EXTENDS Integers, Sequences, FiniteSets, TLC

\* ------------------------------------------------------------------ bounds
MaxN == 2   \* most orbits in one request
MaxM == 2   \* most target epochs in one request

MjdValues == {0, 1}
StateValues == {0, 1}
InputScales == {"utc", "tdb"}
Backends == {"THOR", "PYOORB", "BOGUS"}
OriginValues == {"absent", "heliocenter", "barycenter", "geocenter"}
OrbitTypeValues == {"absent", "cartesian", "keplerian"}

SeqsUpTo(S, n) == UNION {[1..k -> S] : k \in 1..n}

\* ------------------------------------------------------------ time scales
\* Offset of a time scale's reading from the UTC reading of the same instant.
ScaleOffset(scale) ==
    CASE scale = "utc" -> 0
      [] scale = "tt"  -> 1
      [] scale = "tdb" -> 2

\* astropy Time: one scale and an array of MJD values.
MkTime(scale, mjd) == [scale |-> scale, mjd |-> mjd]
NotATime == [scale |-> "none", mjd |-> <<>>]

\* t.<scale>.mjd
InScale(t, scale) ==
    [k \in 1..Len(t.mjd) |-> t.mjd[k] - ScaleOffset(t.scale) + ScaleOffset(scale)]

\* t.tdb.mjd
tdb(t) == InScale(t, "tdb")

\* t.tt.mjd + (t.tdb.mjd - t.tt.mjd)
tt_corrected(t) ==
    [k \in 1..Len(t.mjd) |->
        InScale(t, "tt")[k] + (InScale(t, "tdb")[k] - InScale(t, "tt")[k])]

\* ---------------------------------------------------------------- options
Pop(m, key) == [k \in DOMAIN m \ {key} |-> m[k]]
Put(m, key, v) == [k \in DOMAIN m \cup {key} |-> IF k = key THEN v ELSE m[k]]
EmptyMap == [k \in {} |-> ""]

MkOptions(org, ot) ==
    [k \in (IF org = "absent" THEN {} ELSE {"origin"})
           \cup (IF ot = "absent" THEN {} ELSE {"orbit_type"})
        |-> IF k = "origin" THEN org ELSE ot]

OptionMaps == {MkOptions(org, ot) : org \in OriginValues, ot \in OrbitTypeValues}

\* ----------------------------------------------------------------- errors
NoError == [kind |-> "none", msg |-> ""]
InvalidTimeInput == [kind |-> "TypeError", msg |-> "time"]
UnsupportedBackend == [kind |-> "ValueError", msg |-> "backend"]
InvalidConfiguration == [kind |-> "ValueError", msg |-> "origin"]
MissingKey == [kind |-> "KeyError", msg |-> "origin"]
BackendError == [kind |-> "BackendError", msg |-> "backend"]
ShifterError == [kind |-> "ShifterError", msg |-> "shift"]

\* ----------------------------------------------------------------- tables
NoTable == [columns |-> <<>>, idtype |-> "none", rows |-> <<>>]
NoArray == <<>>

CanonicalColumns ==
    <<"orbit_id", "epoch_mjd_tdb", "x", "y", "z", "vx", "vy", "vz">>

Elements(orbit_type) ==
    IF orbit_type = "keplerian"
    THEN <<"a", "e", "i", "Omega", "omega", "M0">>
    ELSE <<"x", "y", "z", "vx", "vy", "vz">>

\* ------------------------------------------------- collaborators (contracts)
\* _checkTime(t, name): raises unless t is an astropy Time.
_checkTime(t) == t.scale # "none"

\* _backendHandler(backend, "propagate"): the default settings of a backend.
_backendHandler(b) ==
    CASE b = "THOR"   -> MkOptions("heliocenter", "absent")
      [] b = "PYOORB" -> MkOptions("absent", "cartesian")
      [] OTHER        -> EmptyMap

\* Displacement of the barycenter from the heliocenter at a TDB epoch.
BaryOffset(epoch_tdb) == epoch_tdb + 1

\* shiftOrbitsOrigin(states, t, origin_in, origin_out): one epoch per row.
shiftOrbitsOrigin(states, t, origin_in, origin_out) ==
    [k \in 1..Len(states) |->
        IF origin_in = origin_out THEN states[k]
        ELSE IF origin_out = "barycenter"
             THEN states[k] + BaryOffset(tdb(t)[k])
             ELSE states[k] - BaryOffset(tdb(t)[k])]

\* Two-body motion of one state over dt days.
Kepler(state, dt) == 2 * state + dt

OrbitIndex(k, M) == ((k - 1) \div M) + 1
EpochIndex(k, M) == ((k - 1) % M) + 1

\* propagateUniversal(orbits, t0, t1, **kwargs): (N*M, 8) array, orbit-major,
\* rows [orbit_id, epoch, state], orbit_id the index of the orbit.
propagateUniversal(orbs, t0mjd, t1mjd) ==
    [k \in 1..(Len(orbs) * Len(t1mjd)) |->
        [orbit_id |-> OrbitIndex(k, Len(t1mjd)) - 1,
         epoch    |-> t1mjd[EpochIndex(k, Len(t1mjd))],
         state    |-> Kepler(orbs[OrbitIndex(k, Len(t1mjd))],
                             t1mjd[EpochIndex(k, Len(t1mjd))]
                               - t0mjd[OrbitIndex(k, Len(t1mjd))])]]

OrbitTypeOf(kwargs) ==
    IF "orbit_type" \in DOMAIN kwargs THEN kwargs["orbit_type"] ELSE "cartesian"

\* propagateOrbitsPYOORB(orbits, t0, t1, **kwargs): DataFrame of N*M rows,
\* orbit-major, with an epoch column "epoch_mjd" and the state columns of the
\* element type of the input orbits.
propagateOrbitsPYOORB(orbs, t0mjd, t1mjd, kwargs) ==
    [columns |-> <<"orbit_id", "epoch_mjd">> \o Elements(OrbitTypeOf(kwargs)),
     idtype  |-> "int",
     rows    |-> [k \in 1..(Len(orbs) * Len(t1mjd)) |->
        [c \in {"orbit_id", "epoch_mjd", "state"} |->
            CASE c = "orbit_id"  -> OrbitIndex(k, Len(t1mjd)) - 1
              [] c = "epoch_mjd" -> t1mjd[EpochIndex(k, Len(t1mjd))]
              [] c = "state"     -> Kepler(orbs[OrbitIndex(k, Len(t1mjd))],
                                           t1mjd[EpochIndex(k, Len(t1mjd))]
                                             - t0mjd[OrbitIndex(k, Len(t1mjd))])]]]

\* ------------------------------------------------------ dispatcher helpers
\* The branch of the if / elif / else on the backend name.
BranchOf_fallthrough(b) == IF b = "THOR" THEN "THOR" ELSE "PYOORB"

BranchOf(b) ==
    CASE b = "THOR"   -> "THOR"
      [] b = "PYOORB" -> "PYOORB"
      [] OTHER        -> "raise"

\* The two tests `origin == "barycenter"`.
IsBarycenter_any(org) == org \in {"barycenter", "heliocenter"}

IsBarycenter(org) == org = "barycenter"

IsHeliocenter(org) == org = "heliocenter"

\* Time(propagated[:, 1], scale="tdb", format="mjd")
StackedEpochs_first(arr) == MkTime("tdb", [k \in 1..Len(arr) |-> arr[1].epoch])

StackedEpochs(arr) == MkTime("tdb", [k \in 1..Len(arr) |-> arr[k].epoch])

\* propagated[:, 2:]
StateColumns(arr) == [k \in 1..Len(arr) |-> arr[k].state]

\* propagated[:, 2:] = states
SetStateColumns(arr, states) ==
    [k \in 1..Len(arr) |-> [arr[k] EXCEPT !.state = states[k]]]

\* pd.DataFrame(propagated, columns=[...]): the array's three blocks take the
\* names of the column list; values stay floats.
RowKeys(columns) == {columns[1], columns[2], "state"}

DataFrame(arr, columns) ==
    [columns |-> columns,
     idtype  |-> "float",
     rows    |-> [k \in 1..Len(arr) |->
        [c \in RowKeys(columns) |->
            CASE c = columns[1] -> arr[k].orbit_id
              [] c = columns[2] -> arr[k].epoch
              [] OTHER          -> arr[k].state]]]

\* propagated["orbit_id"] = propagated["orbit_id"].astype(int)
AsTypeInt_zero(df) ==
    [df EXCEPT !.idtype = "int",
               !.rows = [k \in 1..Len(df.rows) |->
                            [df.rows[k] EXCEPT !["orbit_id"] = 0]]]

AsTypeInt(df) == [df EXCEPT !.idtype = "int"]

\* propagated.rename(columns={old : new}, inplace=True)
Rename_noop(df, old, new) == df

Rename(df, old, new) ==
    [df EXCEPT
       !.columns = [p \in 1..Len(df.columns) |->
                       IF df.columns[p] = old THEN new ELSE df.columns[p]],
       !.rows = [k \in 1..Len(df.rows) |->
                   [c \in {IF d = old THEN new ELSE d : d \in DOMAIN df.rows[k]} |->
                       IF c = new /\ old \in DOMAIN df.rows[k]
                       THEN df.rows[k][old] ELSE df.rows[k][c]]]]

HasColumn(df, name) == \E p \in 1..Len(df.columns) : df.columns[p] = name

\* propagated[name] = values: overwrites the column, or appends a new one.
SetColumn(df, name, values) ==
    [df EXCEPT
       !.columns = IF HasColumn(df, name) THEN df.columns
                   ELSE Append(df.columns, name),
       !.rows = [k \in 1..Len(df.rows) |->
                   [c \in DOMAIN df.rows[k] \cup {name} |->
                       IF c = name THEN values[k] ELSE df.rows[k][c]]]]

\* np.concatenate([t1_tdb for i in range(len(orbits))])
TileEpochs_repeat(t1mjd, n) ==
    [k \in 1..(n * Len(t1mjd)) |-> t1mjd[OrbitIndex(k, n)]]

TileEpochs(t1mjd, n) ==
    [k \in 1..(n * Len(t1mjd)) |-> t1mjd[EpochIndex(k, Len(t1mjd))]]

\* Where control goes when the selected backend raises: no handler encloses
\* the backend call, so the exception leaves propagateOrbits.
AfterBackendError_fallback(b) == IF b = "THOR" THEN "L98" ELSE "done"

AfterBackendError(b) == "done"

\* ------------------------------------------------------------------- state
VARIABLES
    pc,             \* position in propagateOrbits ("idle": no call in progress)
    orbits,         \* argument: array of N states
    t0,             \* argument: Time of the N orbits
    t1,             \* argument: Time of the M target epochs
    backend,        \* argument: backend name
    kwref,          \* what backend_kwargs refers to: "None", "caller", "default"
    options,        \* the caller's dict, shared by every call that passes it
    options0,       \* the caller's dict as the caller built it
    local_kwargs,   \* the dict _backendHandler returned to this call
    entry_kwargs,   \* backend_kwargs as it was when line 53 was reached
    origin,         \* local
    orbits_,        \* local
    t0_tdb,         \* local
    t1_tdb,         \* local
    propagated,     \* local: the array propagateUniversal returned
    propagated_df,  \* local: the DataFrame
    calls,          \* collaborator invocations of this call, in order
    raised,         \* the exception that left the call
    result          \* the value returned to the caller

args == <<orbits, t0, t1, backend>>
dicts == <<kwref, options, local_kwargs>>
locals == <<entry_kwargs, origin, orbits_, t0_tdb, t1_tdb, propagated, propagated_df>>
outs == <<calls, raised, result>>
vars == <<pc, args, dicts, options0, locals, outs>>

\* backend_kwargs, through the reference
backend_kwargs ==
    CASE kwref = "caller"  -> options
      [] kwref = "default" -> local_kwargs
      [] OTHER             -> EmptyMap

\* An in-place update of the dict backend_kwargs refers to.
WriteKwargs(new) ==
    /\ options' = IF kwref = "caller" THEN new ELSE options
    /\ local_kwargs' = IF kwref = "caller" THEN local_kwargs ELSE new
    /\ kwref' = kwref

ShiftCall(states, t, oin, oout) ==
    [fn |-> "shiftOrbitsOrigin", states |-> states, t0 |-> t, t1 |-> NotATime,
     origin_in |-> oin, origin_out |-> oout, kwargs |-> EmptyMap]

BackendCall(fn, states, ta, tb, kw) ==
    [fn |-> fn, states |-> states, t0 |-> ta, t1 |-> tb,
     origin_in |-> "", origin_out |-> "", kwargs |-> kw]

Times(n) ==
    {MkTime(s, m) : s \in InputScales, m \in SeqsUpTo(MjdValues, n)}

Init ==
    /\ pc = "idle"
    /\ orbits = NoArray /\ t0 = NotATime /\ t1 = NotATime /\ backend = ""
    /\ kwref = "None"
    /\ options \in OptionMaps
    /\ options0 = options
    /\ local_kwargs = EmptyMap
    /\ entry_kwargs = EmptyMap
    /\ origin = "" /\ orbits_ = NoArray
    /\ t0_tdb = <<>> /\ t1_tdb = <<>>
    /\ propagated = NoArray /\ propagated_df = NoTable
    /\ calls = <<>> /\ raised = NoError /\ result = NoTable

\* ----------------------------------------------------------------- actions
\* propagateOrbits(orbits, t0, t1, backend, backend_kwargs) is entered.
Call ==
    /\ pc = "idle"
    /\ \E orbs \in SeqsUpTo(StateValues, MaxN), s0 \in InputScales, v0 \in MjdValues,
          wellformed0 \in BOOLEAN, tb \in Times(MaxM) \cup {NotATime},
          b \in Backends, supplied \in BOOLEAN :
          /\ orbits' = orbs
          /\ t0' = IF wellformed0 THEN MkTime(s0, [i \in 1..Len(orbs) |-> v0])
                   ELSE NotATime
          /\ (~wellformed0 => s0 = "utc" /\ v0 = 0)
          /\ t1' = tb
          /\ backend' = b
          /\ kwref' = IF supplied THEN "caller" ELSE "None"
    /\ pc' = "L43"
    /\ UNCHANGED <<options, options0, local_kwargs, locals, outs>>

\* lines 43-48
CheckTime ==
    /\ pc = "L43"
    /\ _checkTime(t0) /\ _checkTime(t1)
    /\ t0_tdb' = tdb(t0)
    /\ t1_tdb' = tdb(t1)
    /\ pc' = "L50"
    /\ UNCHANGED <<args, dicts, options0, entry_kwargs, origin, orbits_,
                   propagated, propagated_df, outs>>

CheckTime_raises ==
    /\ pc = "L43"
    /\ ~(_checkTime(t0) /\ _checkTime(t1))
    /\ raised' = InvalidTimeInput
    /\ pc' = "done"
    /\ UNCHANGED <<args, dicts, options0, locals, calls, result>>

\* lines 50-51
DefaultKwargs ==
    /\ pc = "L50"
    /\ IF kwref = "None"
       THEN /\ local_kwargs' = _backendHandler(backend)
            /\ kwref' = "default"
            /\ entry_kwargs' = _backendHandler(backend)
       ELSE /\ UNCHANGED <<local_kwargs, kwref>>
            /\ entry_kwargs' = backend_kwargs
    /\ pc' = "L53"
    /\ UNCHANGED <<args, options, options0, origin, orbits_, t0_tdb, t1_tdb,
                   propagated, propagated_df, outs>>

\* lines 53, 96, 109: the branch on the backend name
SelectBackend ==
    /\ pc = "L53"
    /\ BranchOf(backend) # "raise"
    /\ pc' = IF BranchOf(backend) = "THOR" THEN "L54" ELSE "L98"
    /\ UNCHANGED <<args, dicts, options0, locals, outs>>

\* lines 109-113
SelectBackend_raises ==
    /\ pc = "L53"
    /\ BranchOf(backend) = "raise"
    /\ raised' = UnsupportedBackend
    /\ pc' = "done"
    /\ UNCHANGED <<args, dicts, options0, locals, calls, result>>

\* line 54: origin = backend_kwargs.pop("origin")
PopOrigin ==
    /\ pc = "L54"
    /\ "origin" \in DOMAIN backend_kwargs
    /\ origin' = backend_kwargs["origin"]
    /\ WriteKwargs(Pop(backend_kwargs, "origin"))
    /\ pc' = "L56"
    /\ UNCHANGED <<args, options0, entry_kwargs, orbits_, t0_tdb, t1_tdb,
                   propagated, propagated_df, outs>>

PopOrigin_raises ==
    /\ pc = "L54"
    /\ "origin" \notin DOMAIN backend_kwargs
    /\ raised' = MissingKey
    /\ pc' = "done"
    /\ UNCHANGED <<args, dicts, options0, locals, calls, result>>

\* lines 56-60
ShiftToBarycenter ==
    /\ pc = "L56"
    /\ IsBarycenter(origin)
    /\ calls' = Append(calls, ShiftCall(orbits, t0, "heliocenter", "barycenter"))
    /\ \/ /\ orbits_' = shiftOrbitsOrigin(orbits, t0, "heliocenter", "barycenter")
          /\ pc' = "L71"
          /\ UNCHANGED raised
       \/ /\ raised' = ShifterError
          /\ pc' = "done"
          /\ UNCHANGED orbits_
    /\ UNCHANGED <<args, dicts, options0, entry_kwargs, origin, t0_tdb, t1_tdb,
                   propagated, propagated_df, result>>

\* lines 62-63
KeepHeliocenter ==
    /\ pc = "L56"
    /\ ~IsBarycenter(origin)
    /\ IsHeliocenter(origin)
    /\ orbits_' = orbits
    /\ pc' = "L71"
    /\ UNCHANGED <<args, dicts, options0, entry_kwargs, origin, t0_tdb, t1_tdb,
                   propagated, propagated_df, outs>>

\* lines 65-69
BadOrigin_raises ==
    /\ pc = "L56"
    /\ ~IsBarycenter(origin)
    /\ ~IsHeliocenter(origin)
    /\ raised' = InvalidConfiguration
    /\ pc' = "done"
    /\ UNCHANGED <<args, dicts, options0, locals, calls, result>>

\* line 71
PropagateTHOR ==
    /\ pc = "L71"
    /\ calls' = Append(calls, BackendCall("propagateUniversal", orbits_,
                         MkTime("tdb", t0_tdb), MkTime("tdb", t1_tdb), backend_kwargs))
    /\ propagated' = propagateUniversal(orbits_, t0_tdb, t1_tdb)
    /\ pc' = "L73"
    /\ UNCHANGED <<args, dicts, options0, entry_kwargs, origin, orbits_, t0_tdb,
                   t1_tdb, propagated_df, raised, result>>

PropagateTHOR_raises ==
    /\ pc = "L71"
    /\ calls' = Append(calls, BackendCall("propagateUniversal", orbits_,
                         MkTime("tdb", t0_tdb), MkTime("tdb", t1_tdb), backend_kwargs))
    /\ pc' = AfterBackendError(backend)
    /\ raised' = IF AfterBackendError(backend) = "done" THEN BackendError ELSE raised
    /\ UNCHANGED <<args, dicts, options0, locals, result>>

\* lines 73-77
ShiftToHeliocenter ==
    /\ pc = "L73"
    /\ IsBarycenter(origin)
    /\ calls' = Append(calls, ShiftCall(StateColumns(propagated),
                         StackedEpochs(propagated), "barycenter", "heliocenter"))
    /\ \/ /\ propagated' = SetStateColumns(propagated,
                 shiftOrbitsOrigin(StateColumns(propagated), StackedEpochs(propagated),
                                   "barycenter", "heliocenter"))
          /\ pc' = "L79"
          /\ UNCHANGED raised
       \/ /\ raised' = ShifterError
          /\ pc' = "done"
          /\ UNCHANGED propagated
    /\ UNCHANGED <<args, dicts, options0, entry_kwargs, origin, orbits_, t0_tdb,
                   t1_tdb, propagated_df, result>>

SkipShiftToHeliocenter ==
    /\ pc = "L73"
    /\ ~IsBarycenter(origin)
    /\ pc' = "L79"
    /\ UNCHANGED <<args, dicts, options0, locals, outs>>

\* lines 79-94
AssembleTHOR ==
    /\ pc = "L79"
    /\ WriteKwargs(Put(backend_kwargs, "origin", origin))
    /\ propagated_df' = AsTypeInt(DataFrame(propagated, CanonicalColumns))
    /\ pc' = "L115"
    /\ UNCHANGED <<args, options0, entry_kwargs, origin, orbits_, t0_tdb, t1_tdb,
                   propagated, outs>>

\* lines 98-102
PropagatePYOORB ==
    /\ pc = "L98"
    /\ WriteKwargs(Put(backend_kwargs, "time_scale", "TT"))
    /\ calls' = Append(calls, BackendCall("propagateOrbitsPYOORB", orbits,
                         MkTime("tt", tt_corrected(t0)), MkTime("tt", tt_corrected(t1)),
                         Put(backend_kwargs, "time_scale", "TT")))
    /\ propagated_df' = propagateOrbitsPYOORB(orbits, tt_corrected(t0), tt_corrected(t1),
                                              Put(backend_kwargs, "time_scale", "TT"))
    /\ pc' = "L105"
    /\ UNCHANGED <<args, options0, entry_kwargs, origin, orbits_, t0_tdb, t1_tdb,
                   propagated, raised, result>>

PropagatePYOORB_raises ==
    /\ pc = "L98"
    /\ WriteKwargs(Put(backend_kwargs, "time_scale", "TT"))
    /\ calls' = Append(calls, BackendCall("propagateOrbitsPYOORB", orbits,
                         MkTime("tt", tt_corrected(t0)), MkTime("tt", tt_corrected(t1)),
                         Put(backend_kwargs, "time_scale", "TT")))
    /\ raised' = BackendError
    /\ pc' = "done"
    /\ UNCHANGED <<args, options0, locals, result>>

\* lines 104-107
RelabelEpochs ==
    /\ pc = "L105"
    /\ propagated_df' = SetColumn(Rename(propagated_df, "epoch_mjd", "epoch_mjd_tdb"),
                                  "epoch_mjd_tdb", TileEpochs(t1_tdb, Len(orbits)))
    /\ pc' = "L115"
    /\ UNCHANGED <<args, dicts, options0, entry_kwargs, origin, orbits_, t0_tdb,
                   t1_tdb, propagated, outs>>

\* line 115
Return ==
    /\ pc = "L115"
    /\ result' = propagated_df
    /\ pc' = "done"
    /\ UNCHANGED <<args, dicts, options0, locals, calls, raised>>

\* The call is over: its frame is discarded, the caller's dict lives on.
Finish ==
    /\ pc = "done"
    /\ pc' = "idle"
    /\ orbits' = NoArray /\ t0' = NotATime /\ t1' = NotATime /\ backend' = ""
    /\ kwref' = "None"
    /\ local_kwargs' = EmptyMap
    /\ entry_kwargs' = EmptyMap
    /\ origin' = "" /\ orbits_' = NoArray
    /\ t0_tdb' = <<>> /\ t1_tdb' = <<>>
    /\ propagated' = NoArray /\ propagated_df' = NoTable
    /\ calls' = <<>> /\ raised' = NoError /\ result' = NoTable
    /\ UNCHANGED <<options, options0>>

Next ==
    \/ Call
    \/ CheckTime
    \/ CheckTime_raises
    \/ DefaultKwargs
    \/ SelectBackend
    \/ SelectBackend_raises
    \/ PopOrigin
    \/ PopOrigin_raises
    \/ ShiftToBarycenter
    \/ KeepHeliocenter
    \/ BadOrigin_raises
    \/ PropagateTHOR
    \/ PropagateTHOR_raises
    \/ ShiftToHeliocenter
    \/ SkipShiftToHeliocenter
    \/ AssembleTHOR
    \/ PropagatePYOORB
    \/ PropagatePYOORB_raises
    \/ RelabelEpochs
    \/ Return
    \/ Finish

Spec == Init /\ [][Next]_vars

TypeOK ==
    /\ pc \in {"idle", "L43", "L50", "L53", "L54", "L56", "L71", "L73", "L79",
               "L98", "L105", "L115", "done"}
    /\ kwref \in {"None", "caller", "default"}
    /\ options0 \in OptionMaps

\* ------------------------------------------------------------------ claims
N == Len(orbits)
M == Len(t1.mjd)
RowOf(i, j) == (i - 1) * M + j
Recognized == {"THOR", "PYOORB"}
WellFormedTimes == t0.scale # "none" /\ t1.scale # "none"
Ended == pc = "done"
Succeeded == pc = "done" /\ raised = NoError
IsBackendCall(c) == c.fn \in {"propagateUniversal", "propagateOrbitsPYOORB"}
BackendCalls == {k \in 1..Len(calls) : IsBackendCall(calls[k])}
ShiftCalls == {k \in 1..Len(calls) : calls[k].fn = "shiftOrbitsOrigin"}
\* The reading of t1[j] in TDB.
T1InTDB(j) == t1.mjd[j] - ScaleOffset(t1.scale) + ScaleOffset("tdb")
T0InTDB(i) == t0.mjd[i] - ScaleOffset(t0.scale) + ScaleOffset("tdb")

\* C1: a call that returns, on either backend, returns N*M rows whose orbit_id
\* column is 0..N-1, each repeated M times, in orbit-major order.
C1_RowsOrbitMajor ==
    (Succeeded /\ backend \in Recognized) =>
        /\ Len(result.rows) = N * M
        /\ \A i \in 1..N : \A j \in 1..M :
              result.rows[RowOf(i, j)]["orbit_id"] = i - 1

C1_Witness ==
    /\ Succeeded /\ backend = "THOR" /\ N = 2 /\ M = 2
    /\ Len(result.rows) = 4

\* C2: in a returned table the epoch_mjd_tdb of the row of orbit i and target
\* epoch j is the TDB reading of t1[j], on either backend.
C2_EpochsAreT1InTDB ==
    (Succeeded /\ backend \in Recognized) =>
        \A i \in 1..N : \A j \in 1..M :
            result.rows[RowOf(i, j)]["epoch_mjd_tdb"] = T1InTDB(j)

C2_Witness ==
    /\ Succeeded /\ backend = "PYOORB" /\ N = 2 /\ M = 2
    /\ t1.scale = "utc" /\ t1.mjd[1] # t1.mjd[2]
    /\ result.rows[2]["epoch_mjd_tdb"] = t1.mjd[2] + 2

\* C3: when a THOR call whose options hold 'origin' is over, the options again
\* hold 'origin' with the value passed in.
C3_OriginRestored ==
    (Ended /\ backend = "THOR" /\ WellFormedTimes /\ "origin" \in DOMAIN entry_kwargs) =>
        /\ "origin" \in DOMAIN backend_kwargs
        /\ backend_kwargs["origin"] = entry_kwargs["origin"]

C5_InvalidConfiguration ==
    (/\ Ended /\ backend = "THOR" /\ WellFormedTimes
     /\ \/ "origin" \notin DOMAIN entry_kwargs
        \/ entry_kwargs["origin"] \notin {"heliocenter", "barycenter"}) =>
        /\ raised = InvalidConfiguration
        /\ calls = <<>>

C7_HeliocenterIsDirect ==
    (Ended /\ backend = "THOR" /\ origin = "heliocenter") =>
        /\ ShiftCalls = {}
        /\ \A k \in 1..Len(calls) :
              /\ calls[k].fn = "propagateUniversal"
              /\ calls[k].states = orbits
              /\ calls[k].t0 = MkTime("tdb", [i \in 1..N |-> T0InTDB(i)])
              /\ calls[k].t1 = MkTime("tdb", [j \in 1..M |-> T1InTDB(j)])
              /\ calls[k].kwargs = Pop(entry_kwargs, "origin")
        /\ (raised = NoError =>
              /\ Len(calls) = 1
              /\ \A i \in 1..N : \A j \in 1..M :
                    result.rows[RowOf(i, j)]["state"] =
                        Kepler(orbits[i], T1InTDB(j) - T0InTDB(i)))

C7_Witness ==
    /\ Succeeded /\ backend = "THOR" /\ origin = "heliocenter"
    /\ t0.scale = "utc" /\ N = 2 /\ M = 2
    /\ Len(calls) = 1

\* C8: a THOR call with origin 'barycenter' that returns has invoked the
\* origin shift twice around the one backend invocation: heliocenter to
\* barycenter on the input orbits at t0, then barycenter to heliocenter on the
\* state columns of all N*M rows, each row at its own TDB epoch.
C8_ShiftAroundPropagation ==
    (Succeeded /\ backend = "THOR" /\ origin = "barycenter") =>
        /\ Len(calls) = 3
        /\ calls[1] = ShiftCall(orbits, t0, "heliocenter", "barycenter")
        /\ calls[2].fn = "propagateUniversal"
        /\ calls[2].states = [i \in 1..N |-> orbits[i] + BaryOffset(T0InTDB(i))]
        /\ calls[3].fn = "shiftOrbitsOrigin"
        /\ calls[3].origin_in = "barycenter"
        /\ calls[3].origin_out = "heliocenter"
        /\ Len(calls[3].states) = N * M
        /\ calls[3].t0.scale = "tdb"
        /\ \A i \in 1..N : \A j \in 1..M :
              /\ calls[3].t0.mjd[RowOf(i, j)] = T1InTDB(j)
              /\ calls[3].states[RowOf(i, j)] =
                    Kepler(orbits[i] + BaryOffset(T0InTDB(i)), T1InTDB(j) - T0InTDB(i))
              /\ result.rows[RowOf(i, j)]["state"] =
                    calls[3].states[RowOf(i, j)] - BaryOffset(T1InTDB(j))

C8_Witness ==
    /\ Succeeded /\ backend = "THOR" /\ origin = "barycenter"
    /\ M = 2 /\ t1.mjd[1] # t1.mjd[2]
    /\ Len(calls) = 3

\* C9: a call invokes at most one backend, the selected one, at most once;
\* when the backend raises, the call ends with that error right after that
\* one invocation, and no table is returned.
C9_OneBackendNoFallback ==
    /\ Cardinality(BackendCalls) <= 1
    /\ \A k \in BackendCalls :
          calls[k].fn = (IF backend = "THOR" THEN "propagateUniversal"
                         ELSE "propagateOrbitsPYOORB")
    /\ (Ended /\ raised # NoError) => result = NoTable
    /\ (Ended /\ raised = BackendError) =>
          /\ calls # <<>>
          /\ IsBackendCall(calls[Len(calls)])
    /\ (pc \notin {"done", "L73", "L79", "L105", "L115"}) => BackendCalls = {}

C9_Witness ==
    /\ Ended /\ raised = BackendError /\ backend = "THOR"
    /\ Cardinality(BackendCalls) = 1 /\ result = NoTable

\* What a call does when it is made alone with the dict d: the error the
\* dispatcher itself raises, and the options it hands to the backend.
AloneRaised(b, d) ==
    CASE b = "THOR" /\ "origin" \notin DOMAIN d -> MissingKey
      [] b = "THOR" /\ "origin" \in DOMAIN d
           /\ d["origin"] \notin {"heliocenter", "barycenter"} -> InvalidConfiguration
      [] b \notin Recognized -> UnsupportedBackend
      [] OTHER -> NoError

AloneHanded(b, d) ==
    IF b = "THOR" THEN Pop(d, "origin") ELSE Put(d, "time_scale", "TT")

\* C10: every call that passes the shared options dict ends as it would have
\* ended alone with the dict as the caller built it, and hands its backend the
\* options it would have handed it then.
C10_CallsIndependent ==
    (Ended /\ kwref = "caller" /\ WellFormedTimes) =>
        /\ (AloneRaised(backend, options0) # NoError
              => raised = AloneRaised(backend, options0))
        /\ (AloneRaised(backend, options0) = NoError
              => raised \in {NoError, BackendError, ShifterError})
        /\ \A k \in BackendCalls :
              calls[k].kwargs = AloneHanded(backend, options0)
====
